---- MODULE Spec2Model ----
\* A model of the django-unicorn client component (component.js): the action
\* queue, the element and document listeners, the debounced dispatch, the merge
\* of a response into the DOM, and polling.
EXTENDS Integers, Sequences, FiniteSets, TLC

\* ---------------------------------------------------------------- bounds

\* Queue entries created over a run (each entry gets a fresh identity).
MaxActions == 3
\* Length of lastTriggeringElements.
MaxTriggering == 2
\* Requests in flight at the same time.
MaxInFlight == 2
\* Listener registrations an element accumulates (construction + rebuilds).
MaxListeners == 2

\* ------------------------------------------------------------ the document

\* The page: a root (the component's node) and eight descendants, in document
\* order.  3 is a form-like node carrying actions; 4 lies inside it; 8 is a
\* button.  Foreign is a node of the same document outside the root (it belongs
\* to another component) that carries the same attributes as the button.
Root == 0
LastElement == 8
Foreign == 9
Elements == 1 .. LastElement
Parent(e) == IF e = 4 THEN 3 ELSE Root

Values == {"v1", "v2"}
Undefined == "undefined"
Null == "null"
Absent == "absent"
Obj == "obj"
\* What a form control shows after element.setValue(null) and after
\* element.setValue of an object.
EmptyString == ""
ObjectString == "[object Object]"

NoModel ==
  [name |-> <<>>, eventType |-> "", debounceTime |-> 0, isLazy |-> FALSE, isDefer |-> FALSE]

\* element.model: the model binding of a node (name kept split at the dots).
ElModel(e) ==
  CASE e = 1 -> [name |-> <<"a">>, eventType |-> "input", debounceTime |-> 500,
                 isLazy |-> FALSE, isDefer |-> FALSE]
    [] e = 2 -> [name |-> <<"b">>, eventType |-> "input", debounceTime |-> -1,
                 isLazy |-> FALSE, isDefer |-> TRUE]
    [] e = 4 -> [name |-> <<"u", "c">>, eventType |-> "blur", debounceTime |-> -1,
                 isLazy |-> TRUE, isDefer |-> FALSE]
    [] OTHER -> NoModel

\* element.db: record type and primary key.
ElDb(e) ==
  CASE e \in {4, 7} -> [name |-> "rec", pk |-> "2"]
    [] e \in {5, 6} -> [name |-> "rec", pk |-> "1"]
    [] OTHER -> [name |-> "", pk |-> ""]

\* element.field: the record field binding.
ElField(e) ==
  CASE e = 4 -> [name |-> "f", eventType |-> "blur", isDefer |-> FALSE]
    [] e = 5 -> [name |-> "g", eventType |-> "input", isDefer |-> TRUE]
    [] e = 6 -> [name |-> "f", eventType |-> "input", isDefer |-> TRUE]
    [] e = 7 -> [name |-> "g", eventType |-> "input", isDefer |-> FALSE]
    [] OTHER -> [name |-> "", eventType |-> "", isDefer |-> FALSE]

FieldNames == {"f", "g"}

\* element.actions: the action bindings of a node.
ElActions(e) ==
  CASE e = 3 ->
         << [name |-> <<"b">>, eventType |-> "click", key |-> "",
             isPrevent |-> FALSE, isStop |-> FALSE],
            [name |-> <<"go">>, eventType |-> "keyup", key |-> "enter",
             isPrevent |-> TRUE, isStop |-> FALSE] >>
    [] e \in {8, Foreign} ->
         << [name |-> <<"save">>, eventType |-> "click", key |-> "",
             isPrevent |-> FALSE, isStop |-> TRUE] >>
    [] OTHER -> << >>

\* element.isUnicorn: the node carries some unicorn attribute.
IsUnicorn(e) ==
  \/ ElModel(e) # NoModel
  \/ ElDb(e).name # ""
  \/ ElField(e).name # ""
  \/ ElActions(e) # << >>

\* isEmpty of utils.js, on a binding.
IsEmptyModel(m) == m.name = << >>
IsEmptyDb(d) == d.name = "" /\ d.pk = ""
IsEmptyField(f) == f.name = ""

\* walk(el, callback): the descendants of el, in document order.
RECURSIVE IsDescendant(_, _)
IsDescendant(e, anc) ==
  IF e = Root THEN FALSE
  ELSE Parent(e) = anc \/ IsDescendant(Parent(e), anc)

RECURSIVE WalkFrom(_, _)
WalkFrom(anc, e) ==
  IF e > LastElement THEN << >>
  ELSE (IF IsDescendant(e, anc) THEN << e >> ELSE << >>) \o WalkFrom(anc, e + 1)

Walk(anc) == WalkFrom(anc, 1)

\* The elements that show a value the user can edit.
ValueElements == {e \in Elements : ElModel(e) # NoModel \/ ElField(e).name # ""}

\* ------------------------------------------------------------------ state

VARIABLES
  actionQueue,             \* this.actionQueue
  lastTriggeringElements,  \* this.lastTriggeringElements
  data,                    \* this.data
  modelEls,                \* this.modelEls
  dbEls,                   \* this.dbEls
  actionEvents,            \* this.actionEvents
  attachedEventTypes,      \* this.attachedEventTypes
  poll,                    \* this.poll
  elId,                    \* the id attribute of each node
  elKey,                   \* the unicorn:key attribute of each node
  elValue,                 \* what each form control shows (getValue / setValue)
  focused,                 \* the node that has the focus (Root: none of ours)
  elListeners,             \* the listeners attached to each node, in order
  docListeners,            \* the listeners attached to the document, in order
  hidden,                  \* document.hidden
  timers,                  \* the pending debounce timers of sendMessage
  intervals,               \* the running setInterval handles
  inflight,                \* the requests sent and not yet answered
  nextId,                  \* identity of the next queue entry
  nextHandle,              \* the next handle setInterval returns
  hist                     \* what has happened so far (observations only)

vars ==
  << actionQueue, lastTriggeringElements, data, modelEls, dbEls, actionEvents,
     attachedEventTypes, poll, elId, elKey, elValue, focused, elListeners,
     docListeners, hidden, timers, intervals, inflight, nextId, nextHandle, hist >>

EventTypes == {"input", "blur", "click", "keyup"}
ModelNames == {ElModel(e).name : e \in {x \in Elements : ElModel(x) # NoModel}}
Records == {<<ElDb(e).name, ElDb(e).pk>> : e \in {x \in Elements : ElDb(x).name # ""}}

\* The part of the state the listeners read and write, as one record.
Cur ==
  [actionQueue |-> actionQueue,
   lastTriggeringElements |-> lastTriggeringElements,
   timers |-> timers,
   nextId |-> nextId,
   elValue |-> elValue,
   focused |-> focused,
   poll |-> poll,
   intervals |-> intervals,
   nextHandle |-> nextHandle,
   inflight |-> inflight,
   hist |-> hist]

\* ------------------------------------------------------------ queue entries

\* An event as the listeners see it: its target, type and key, and whether a
\* listener has called preventDefault or stopPropagation on it.
Event(target, eventType, key) ==
  [target |-> target, eventType |-> eventType, key |-> key,
   prevented |-> FALSE, stopped |-> FALSE]

NoEvent == Event(Root, "none", "")

NoFields == [f \in FieldNames |-> Undefined]

\* { type: "syncInput", payload: { name, value } }
SyncInput(name, value) ==
  [id |-> 0, type |-> "syncInput", name |-> name, value |-> value,
   db |-> "", pk |-> "", fields |-> NoFields]

\* { type: "dbInput", payload: { db, pk, fields: { [field]: value } } }
DbInput(db, pk, field, value) ==
  [id |-> 0, type |-> "dbInput", name |-> << >>, value |-> Undefined,
   db |-> db, pk |-> pk, fields |-> [NoFields EXCEPT ![field] = value]]

\* { type: "callMethod", payload: { name, params: [] } }
CallMethodAction(name) ==
  [id |-> 0, type |-> "callMethod", name |-> name, value |-> Undefined,
   db |-> "", pk |-> "", fields |-> NoFields]

\* An unshift in the place of the push: the entry goes to the head.
Push_AtHead(c, a) ==
  [c EXCEPT !.actionQueue = << [a EXCEPT !.id = c.nextId] >> \o @,
            !.nextId = @ + 1]

\* this.actionQueue.push(action): the entry is a new object.
Push(c, a) ==
  [c EXCEPT !.actionQueue = Append(@, [a EXCEPT !.id = c.nextId]),
            !.nextId = @ + 1]

\* this.lastTriggeringElements.push(element)
Trigger(c, e) ==
  [c EXCEPT !.lastTriggeringElements = Append(@, e)]

\* Observation: the value last enqueued for a field name, and the one before.
NoteSync(c, name, value) ==
  [c EXCEPT !.hist.lastSync[name] = value,
            !.hist.prevSync[name] = c.hist.lastSync[name]]

\* Observation: the value last enqueued for a field of a record.
NoteDb(c, db, pk, field, value) ==
  [c EXCEPT !.hist.lastDb[<<db, pk>>][field] = value]

\* --------------------------------------------------------------- dispatch

NoCallback == [kind |-> "none", errCallback |-> "none", timer |-> 0]
\* The completion callback of a model listener.
ModelCallback == [kind |-> "model", errCallback |-> "none", timer |-> 0]
\* The completion callback of a record listener.
DbCallback == [kind |-> "db", errCallback |-> "none", timer |-> 0]
\* The completion callback of callMethod, with the errCallback it was given.
MethodCallback(errCallback, timer) ==
  [kind |-> "callMethod", errCallback |-> errCallback, timer |-> timer]

IdleTimer == [pending |-> FALSE, cb |-> NoCallback, calls |-> 0]

\* debounce(send, wait, false)(component, callback): the call (re)starts the
\* window of its call site and keeps the arguments of the latest call; send
\* runs when the window expires (TimerFire).
Debounce(c, site, cb) ==
  [c EXCEPT !.timers[site] =
     [pending |-> TRUE, cb |-> cb,
      calls |-> IF @.pending THEN @.calls + 1 ELSE 1]]

\* sendMessage without the branch for -1: every call takes the else branch.
SendMessage_NoDefaultBranch(c, debounceTime, cb) ==
  Debounce(c, "custom", cb)

\* sendMessage(debounceTime, callback)
SendMessage(c, debounceTime, cb) ==
  IF debounceTime = -1
    THEN Debounce(c, "default", cb)
    ELSE Debounce(c, "custom", cb)

\* callMethod(methodName, errCallback)
CallMethod(c, methodName, cb) ==
  SendMessage(Push(c, CallMethodAction(methodName)), -1, cb)

\* -------------------------------------------------------------- listeners

\* The model listener with the deferred branch appending like the other branch.
ModelListener_DeferAppends(c, e) ==
  LET m == ElModel(e)
      v == c.elValue[e]
      c1 == Trigger(Push(NoteSync(c, m.name, v), SyncInput(m.name, v)), e)
  IN IF m.isDefer THEN c1 ELSE SendMessage(c1, m.debounceTime, ModelCallback)

\* The model listener with the deferred branch dispatching like the other
\* branch.
ModelListener_DeferSends(c, e) ==
  LET m == ElModel(e)
      v == c.elValue[e]
      c1 == NoteSync(c, m.name, v)
      c2 == IF \E i \in DOMAIN c.actionQueue : c.actionQueue[i].name = m.name
              THEN [c1 EXCEPT !.actionQueue =
                      [i \in DOMAIN @ |->
                         IF @[i].name = m.name
                           THEN [@[i] EXCEPT !.value = v]
                           ELSE @[i]]]
              ELSE Trigger(Push(c1, SyncInput(m.name, v)), e)
  IN IF m.isDefer
       THEN SendMessage(c2, m.debounceTime, ModelCallback)
       ELSE SendMessage(Trigger(Push(c1, SyncInput(m.name, v)), e),
                        m.debounceTime, ModelCallback)

\* The listener addModelEventListener attaches to element e.
ModelListener(c, e) ==
  LET m == ElModel(e)
      v == c.elValue[e]
      c1 == NoteSync(c, m.name, v)
  IN IF m.isDefer
       THEN IF \E i \in DOMAIN c.actionQueue : c.actionQueue[i].name = m.name
              THEN [c1 EXCEPT !.actionQueue =
                      [i \in DOMAIN @ |->
                         IF @[i].name = m.name
                           THEN [@[i] EXCEPT !.value = v]
                           ELSE @[i]]]
              ELSE Trigger(Push(c1, SyncInput(m.name, v)), e)
       ELSE SendMessage(Trigger(Push(c1, SyncInput(m.name, v)), e),
                        m.debounceTime, ModelCallback)

\* The record listener with the deferred branch replacing the fields of the
\* entry it finds instead of adding the field to them.
DbListener_DeferReplaces(c, e) ==
  LET d == ElDb(e)
      f == ElField(e)
      v == c.elValue[e]
      c1 == NoteDb(Trigger(c, e), d.name, d.pk, f.name, v)
  IN IF d.name = "" \/ d.pk = ""
       THEN c
       ELSE IF f.isDefer
         THEN IF \E i \in DOMAIN c.actionQueue :
                   c.actionQueue[i].db = d.name /\ c.actionQueue[i].pk = d.pk
                THEN [c1 EXCEPT !.actionQueue =
                        [i \in DOMAIN @ |->
                           IF @[i].db = d.name /\ @[i].pk = d.pk
                             THEN [@[i] EXCEPT !.fields = [NoFields EXCEPT ![f.name] = v]]
                             ELSE @[i]]]
                ELSE Push(c1, DbInput(d.name, d.pk, f.name, v))
         ELSE SendMessage(Push(c1, DbInput(d.name, d.pk, f.name, v)),
                          ElModel(e).debounceTime, DbCallback)

\* The listener addDbEventListener attaches to element e.
DbListener(c, e) ==
  LET d == ElDb(e)
      f == ElField(e)
      v == c.elValue[e]
      c1 == NoteDb(Trigger(c, e), d.name, d.pk, f.name, v)
  IN IF d.name = "" \/ d.pk = ""
       THEN c
       ELSE IF f.isDefer
         THEN IF \E i \in DOMAIN c.actionQueue :
                   c.actionQueue[i].db = d.name /\ c.actionQueue[i].pk = d.pk
                THEN [c1 EXCEPT !.actionQueue =
                        [i \in DOMAIN @ |->
                           IF @[i].db = d.name /\ @[i].pk = d.pk
                             THEN [@[i] EXCEPT !.fields[f.name] = v]
                             ELSE @[i]]]
                ELSE Push(c1, DbInput(d.name, d.pk, f.name, v))
         ELSE SendMessage(Push(c1, DbInput(d.name, d.pk, f.name, v)),
                          ElModel(e).debounceTime, DbCallback)

\* Lines 81-96: the lazy model value of a node in the target's scope.
FlushModel(c, child) ==
  IF /\ \E i \in DOMAIN modelEls : modelEls[i] = child
     /\ ~IsEmptyModel(ElModel(child))
     /\ ElModel(child).isLazy
    THEN Push(NoteSync(c, ElModel(child).name, c.elValue[child]),
              SyncInput(ElModel(child).name, c.elValue[child]))
    ELSE c

\* Lines 98-118: the lazy record value of a node in the target's scope.
FlushDb(c, child) ==
  IF /\ \E i \in DOMAIN dbEls : dbEls[i] = child
     /\ ~IsEmptyModel(ElModel(child))
     /\ ElModel(child).isLazy
    THEN Push(NoteDb(c, ElDb(child).name, ElDb(child).pk, ElField(child).name,
                     c.elValue[child]),
              DbInput(ElDb(child).name, ElDb(child).pk, ElField(child).name,
                      c.elValue[child]))
    ELSE c

\* walk(element.el, ...) of the action listener, over the nodes still to visit.
RECURSIVE FlushLazy(_, _)
FlushLazy(c, children) ==
  IF children = << >> THEN c
  ELSE FlushLazy(FlushDb(FlushModel(c, Head(children)), Head(children)),
                 Tail(children))

\* toKebabCase(event.key)
ToKebabCase(key) ==
  CASE key = "Enter" -> "enter"
    [] key = "Escape" -> "escape"
    [] key = "ArrowUp" -> "arrow-up"
    [] OTHER -> key

\* Lines 121-127: event.preventDefault() and event.stopPropagation(), on the
\* event being handled.
PreventAndStop(c, action) ==
  [c EXCEPT !.hist.lastEvent.prevented = @ \/ action.isPrevent,
            !.hist.lastEvent.stopped = @ \/ action.isStop]

\* The action binding matching the target by its attributes (isEqualNode)
\* instead of by identity.
ActionBinding_EqualNode(c, ae, target, key) ==
  IF ElActions(ae.element) # ElActions(target) THEN c
  ELSE LET c1 == PreventAndStop(FlushLazy(c, Walk(ae.element)), ae.action)
       IN IF ae.action.key # ""
            THEN IF ae.action.key = ToKebabCase(key)
                   THEN CallMethod(c1, ae.action.name, MethodCallback("none", 0))
                   ELSE c1
            ELSE CallMethod(c1, ae.action.name, MethodCallback("none", 0))

\* The action binding calling the method before it flushes the lazy values.
ActionBinding_CallsBeforeFlush(c, ae, target, key) ==
  IF ae.element # target THEN c
  ELSE LET c1 == PreventAndStop(c, ae.action)
           c2 == IF ae.action.key # "" /\ ae.action.key # ToKebabCase(key)
                   THEN c1
                   ELSE CallMethod(c1, ae.action.name, MethodCallback("none", 0))
       IN FlushLazy(c2, Walk(ae.element))

\* Lines 77-136: one action binding of the fired event type, against the target.
ActionBinding(c, ae, target, key) ==
  IF ae.element # target THEN c
  ELSE LET c1 == PreventAndStop(FlushLazy(c, Walk(ae.element)), ae.action)
       IN IF ae.action.key # ""
            THEN IF ae.action.key = ToKebabCase(key)
                   THEN CallMethod(c1, ae.action.name, MethodCallback("none", 0))
                   ELSE c1
            ELSE CallMethod(c1, ae.action.name, MethodCallback("none", 0))

RECURSIVE ActionBindings(_, _, _, _)
ActionBindings(c, aes, target, key) ==
  IF aes = << >> THEN c
  ELSE ActionBindings(ActionBinding(c, Head(aes), target, key), Tail(aes), target, key)

\* The document listener addActionEventListener attaches for eventType.
ActionListener(c, eventType, target, key) ==
  IF IsUnicorn(target) /\ Len(ElActions(target)) > 0
    THEN ActionBindings(c, actionEvents[eventType], target, key)
    ELSE c

\* ------------------------------------------------------------ merge engine

\* this.data is kept as a map from paths to what lies there: a value, Null,
\* Obj (a nested object, whose members are the longer paths) or Absent.
Paths == {<<"a">>, <<"b">>, <<"c">>, <<"u">>, <<"u", "c">>}

Lookup(d, p) == IF p \in DOMAIN d THEN d[p] ELSE Absent

\* _data == null, for the _data found at path cur (<< >> is this.data itself).
IsNullish(d, cur) == cur # << >> /\ Lookup(d, cur) = Null

\* Object.prototype.hasOwnProperty.call(_data, piece)
HasOwnProperty(d, cur, piece) ==
  /\ cur = << >> \/ Lookup(d, cur) = Obj
  /\ Lookup(d, Append(cur, piece)) # Absent

\* element.setValue(v) of element.js: what the control shows afterwards.
ElementSetValue(c, e, v) ==
  [c EXCEPT !.elValue[e] =
              CASE v = Null -> EmptyString
                [] v = Obj -> ObjectString
                [] OTHER -> v,
            !.hist.written = @ \cup {e}]

\* Lines 403-417: the loop of setValue from piece i on, _data being at cur.
RECURSIVE SetValueLoop(_, _, _, _, _)
SetValueLoop(c, e, d, i, cur) ==
  LET pieces == ElModel(e).name
  IN IF i > Len(pieces) THEN c
     ELSE IF IsNullish(d, cur) THEN c
     ELSE IF HasOwnProperty(d, cur, pieces[i])
       THEN IF i = Len(pieces)
              THEN SetValueLoop(ElementSetValue(c, e, Lookup(d, Append(cur, pieces[i]))),
                                e, d, i + 1, cur)
              ELSE SetValueLoop(c, e, d, i + 1, Append(cur, pieces[i]))
       ELSE SetValueLoop(c, e, d, i + 1, cur)

\* setValue(element)
SetValue(c, e, d) ==
  IF IsEmptyModel(ElModel(e)) THEN c
  ELSE SetValueLoop([c EXCEPT !.hist.setValueCalls = @ \cup {e}], e, d, 1, << >>)

\* lastTriggeringElement[attr] / element[attr]
Attr(e, attr) == IF attr = "id" THEN elId[e] ELSE elKey[e]

\* Lines 468-478: the inner forEach over this.modelEls for one attribute.
RECURSIVE FocusScan(_, _, _, _)
FocusScan(c, attr, last, els) ==
  IF els = << >> THEN c
  ELSE LET element == Head(els)
           c1 == IF /\ c.hist.focusCalls = << >>
                    /\ Attr(last, attr) # ""
                    /\ Attr(last, attr) = Attr(element, attr)
                   THEN [c EXCEPT !.focused = element,
                                  !.hist.focusCalls = Append(@, element)]
                   ELSE c
       IN FocusScan(c1, attr, last, Tail(els))

\* The focus restoration scanning the key attribute before the id attribute.
RestoreFocus_KeyFirst(c, te) ==
  IF Len(te) > 0
    THEN LET last == te[Len(te)]
         IN IF ~IsEmptyModel(ElModel(last)) /\ ~ElModel(last).isLazy
              THEN FocusScan(FocusScan(c, "key", last, modelEls), "id", last, modelEls)
              ELSE c
    ELSE c

\* Lines 458-481: focus on the last element that triggered the update.
RestoreFocus(c, te) ==
  IF Len(te) > 0
    THEN LET last == te[Len(te)]
         IN IF ~IsEmptyModel(ElModel(last)) /\ ~ElModel(last).isLazy
              THEN FocusScan(FocusScan(c, "id", last, modelEls), "key", last, modelEls)
              ELSE c
    ELSE c

\* Lines 484-496: whether setValue is applied to a model element.
ShouldSetValue(element, te) ==
  \/ \E i \in DOMAIN te : element # te[i]
  \/ Len(te) = 0

\* Lines 483-497: the forEach over this.modelEls.
RECURSIVE SetValues(_, _, _, _)
SetValues(c, te, d, els) ==
  IF els = << >> THEN c
  ELSE SetValues(IF ShouldSetValue(Head(els), te) THEN SetValue(c, Head(els), d) ELSE c,
                 te, d, Tail(els))

\* setModelValues(triggeringElements)
SetModelValues(c, te, d) ==
  SetValues(RestoreFocus(c, te), te, d, modelEls)

\* Lines 436-444: the record updates that apply to one record element.
DbValue(element, dbUpdates) ==
  LET k == <<ElDb(element).name, ElDb(element).pk, ElField(element).name>>
  IN IF k \in DOMAIN dbUpdates THEN dbUpdates[k] ELSE Absent

RECURSIVE SetDbValues(_, _, _, _)
SetDbValues(c, te, dbUpdates, els) ==
  IF els = << >> THEN c
  ELSE LET element == Head(els)
           c1 == IF /\ Len(te) = 0 \/ te[Len(te)] # element
                    /\ DbValue(element, dbUpdates) # Absent
                   THEN ElementSetValue(c, element, DbValue(element, dbUpdates))
                   ELSE c
       IN SetDbValues(c1, te, dbUpdates, Tail(els))

\* setDbModelValues(triggeringElements, dbUpdates)
SetDbModelValues(c, te, dbUpdates) ==
  SetDbValues(c, te, dbUpdates, dbEls)

\* What the last merge did starts empty.
StartMerge(c) ==
  [c EXCEPT !.hist.setValueCalls = {}, !.hist.written = {}, !.hist.focusCalls = << >>]

\* ------------------------------------------------------- listener registry

\* The registry refreshEventListeners rebuilds, and the listeners on the nodes.
Registry ==
  [modelEls |-> modelEls, dbEls |-> dbEls, actionEvents |-> actionEvents,
   attachedEventTypes |-> attachedEventTypes,
   elListeners |-> elListeners, docListeners |-> docListeners]

InSeq(x, s) == \E i \in DOMAIN s : s[i] = x

\* Lines 267-275: the model binding of a walked node.
RegisterModel(r, e) ==
  IF ~IsEmptyModel(ElModel(e)) /\ ~InSeq(e, r.modelEls)
    THEN [r EXCEPT !.modelEls = Append(@, e),
                   !.elListeners[e] =
                      Append(@, [kind |-> "model", eventType |-> ElModel(e).eventType])]
    ELSE r

\* Lines 277-284: the record binding of a walked node.
RegisterDb(r, e) ==
  IF ~IsEmptyDb(ElDb(e)) /\ ~IsEmptyField(ElField(e)) /\ ~InSeq(e, r.dbEls)
    THEN [r EXCEPT !.dbEls = Append(@, e),
                   !.elListeners[e] =
                      Append(@, [kind |-> "db", eventType |-> ElField(e).eventType])]
    ELSE r

\* The registration of the action bindings without the test on
\* attachedEventTypes: a document listener is attached whenever the table of
\* the rebuild has no list for the event type yet.
RECURSIVE RegisterActions_AlwaysAttaches(_, _, _)
RegisterActions_AlwaysAttaches(r, e, i) ==
  IF i > Len(ElActions(e)) THEN r
  ELSE LET action == ElActions(e)[i]
           t == action.eventType
           ae == [action |-> action, element |-> e]
           r1 == IF r.actionEvents[t] # << >>
                   THEN [r EXCEPT !.actionEvents[t] = Append(@, ae)]
                   ELSE [r EXCEPT !.actionEvents[t] = << ae >>,
                                  !.attachedEventTypes = Append(@, t),
                                  !.docListeners = Append(@, t)]
       IN RegisterActions_AlwaysAttaches(r1, e, i + 1)

\* Lines 286-300: the action bindings of a walked node, from the i-th on.
RECURSIVE RegisterActions(_, _, _)
RegisterActions(r, e, i) ==
  IF i > Len(ElActions(e)) THEN r
  ELSE LET action == ElActions(e)[i]
           t == action.eventType
           ae == [action |-> action, element |-> e]
           r1 == IF r.actionEvents[t] # << >>
                   THEN [r EXCEPT !.actionEvents[t] = Append(@, ae)]
                   ELSE IF ~InSeq(t, r.attachedEventTypes)
                     THEN [r EXCEPT !.actionEvents[t] = << ae >>,
                                    !.attachedEventTypes = Append(@, t),
                                    !.docListeners = Append(@, t)]
                     ELSE [r EXCEPT !.actionEvents[t] = << ae >>]
       IN RegisterActions(r1, e, i + 1)

\* Lines 258-302: the walk over the nodes still to visit.
RECURSIVE RegisterWalk(_, _)
RegisterWalk(r, els) ==
  IF els = << >> THEN r
  ELSE LET e == Head(els)
           r1 == IF e # Root /\ IsUnicorn(e)
                   THEN RegisterActions(RegisterDb(RegisterModel(r, e), e), e, 1)
                   ELSE r
       IN RegisterWalk(r1, Tail(els))

\* refreshEventListeners()
RefreshEventListeners(r) ==
  RegisterWalk([r EXCEPT !.actionEvents = [t \in EventTypes |-> << >>],
                         !.modelEls = << >>,
                         !.dbEls = << >>],
               Walk(Root))

\* A component before init(): nothing registered, no listener attached.
NewRegistry ==
  [modelEls |-> << >>, dbEls |-> << >>,
   actionEvents |-> [t \in EventTypes |-> << >>],
   attachedEventTypes |-> << >>,
   elListeners |-> [e \in Elements |-> << >>],
   docListeners |-> << >>]

\* ------------------------------------------------------------------ polling

NoPoll == [method |-> << >>, timing |-> 0, timer |-> 0]

\* handleError(err) of startPolling, `timer` being what the closure captured.
HandleError(c, timer) ==
  IF timer # 0
    THEN [c EXCEPT !.intervals = {iv \in @ : iv.handle # timer}]
    ELSE c

\* startPolling()
StartPolling(c) ==
  LET c1 == [c EXCEPT !.poll.timer = 0]
      timer == c1.poll.timer
      c2 == CallMethod([c1 EXCEPT !.hist.pollCalls = @ + 1], c1.poll.method,
                       MethodCallback("handleError", timer))
  IN [c2 EXCEPT !.poll.timer = c2.nextHandle,
                !.intervals = @ \cup {[handle |-> c2.nextHandle, timer |-> timer]},
                !.nextHandle = @ + 1]

\* The visibilitychange listener of initPolling, document.hidden being h.
VisibilityListener(c, h) ==
  IF h
    THEN IF c.poll.timer # 0
           THEN [c EXCEPT !.intervals = {iv \in @ : iv.handle # c.poll.timer}]
           ELSE c
    ELSE StartPolling(c)

\* initPolling(), the root carrying the poll directive p (NoPoll: none).
InitPolling(c, p) ==
  IF p # NoPoll
    THEN StartPolling([c EXCEPT !.poll = [p EXCEPT !.timer = 0]])
    ELSE c

\* ----------------------------------------------------------------- send

Ids(q) == {q[i].id : i \in DOMAIN q}

\* send(component, callback) of messageSender.js: the request carries the
\* whole action queue as it is when the debounce window expires.
Send(c, cb) ==
  [c EXCEPT !.inflight = Append(@, [sent |-> Ids(c.actionQueue), cb |-> cb]),
            !.hist.everSent = @ \cup Ids(c.actionQueue)]

\* The window of a call site expires: the debounced send runs.
Expire(c, site) ==
  Send([c EXCEPT !.timers[site] = IdleTimer,
                 !.hist.lastBurst = [site |-> site, calls |-> c.timers[site].calls]],
       c.timers[site].cb)

\* The success path emptying the whole queue.
SendSuccess_ClearsQueue(c, req) ==
  [c EXCEPT !.actionQueue = << >>,
            !.lastTriggeringElements = << >>]

\* send's success path before the callback: the actions that were sent leave
\* the queue, the triggering elements are handed over and reset.
SendSuccess(c, req) ==
  LET Keep(a) == a.id \notin req.sent
  IN [c EXCEPT !.actionQueue = SelectSeq(@, Keep),
               !.lastTriggeringElements = << >>]

\* Observation: a request was answered; what was last enqueued is forgotten
\* for the names and records that have no entry left in the queue, and so is
\* the event handled before the answer.
NoteResponse(c, outcome) ==
  LET q == c.actionQueue
  IN [c EXCEPT
        !.hist.lastOutcome = outcome,
        !.hist.lastEvent = NoEvent,
        !.hist.survived = (outcome = "ok" /\ q # << >>),
        !.hist.lastSync =
           [n \in ModelNames |->
              IF \E i \in DOMAIN q : q[i].name = n THEN @[n] ELSE Undefined],
        !.hist.prevSync =
           [n \in ModelNames |->
              IF \E i \in DOMAIN q : q[i].name = n THEN @[n] ELSE Undefined],
        !.hist.lastDb =
           [r \in Records |->
              IF \E i \in DOMAIN q : <<q[i].db, q[i].pk>> = r THEN @[r] ELSE NoFields]]

NoUpdates == << >>

\* The completion callbacks (lines 182-189, 239-245, 315-324), on success.
OnSuccess(c, cb, te, dbUpdates, d) ==
  CASE cb.kind = "model" ->
         SetDbModelValues(SetModelValues(c, te, d), te, NoUpdates)
    [] cb.kind = "db" ->
         SetDbModelValues(c, te, dbUpdates)
    [] cb.kind = "callMethod" ->
         SetDbModelValues(SetModelValues(c, te, d), te, NoUpdates)
    [] OTHER -> c

\* The completion callbacks merging the data on error as they do on success.
OnError_Merges(c, cb) ==
  IF cb.kind = "none" THEN c
  ELSE SetModelValues(c, lastTriggeringElements, data)

\* The completion callbacks, on error.
OnError(c, cb) ==
  IF cb.kind = "callMethod" /\ cb.errCallback = "handleError"
    THEN HandleError([c EXCEPT !.hist.pollErrored = TRUE], cb.timer)
    ELSE c

\* ------------------------------------------------------------------ Init

Data0 ==
  [p \in Paths |->
     CASE p = <<"u">> -> Obj
       [] p = <<"c">> -> Absent
       [] OTHER -> "v1"]

Hist0 ==
  [lastSync |-> [n \in ModelNames |-> Undefined],
   prevSync |-> [n \in ModelNames |-> Undefined],
   lastOutcome |-> "none",
   survived |-> FALSE,
   lastDb |-> [r \in Records |-> NoFields],
   setValueCalls |-> {},
   written |-> {},
   focusCalls |-> << >>,
   lastBurst |-> [site |-> "none", calls |-> 0],
   pollCalls |-> 0,
   pollErrored |-> FALSE,
   lastEvent |-> NoEvent,
   everSent |-> {},
   rootFound |-> TRUE,
   phase |-> "running"]

\* The fields the constructor sets (lines 27-38), on the page as rendered.
Constructed ==
  [actionQueue |-> << >>,
   lastTriggeringElements |-> << >>,
   timers |-> [site \in {"default", "custom"} |-> IdleTimer],
   nextId |-> 1,
   elValue |-> [e \in ValueElements |-> "v1"],
   focused |-> Root,
   poll |-> NoPoll,
   intervals |-> {},
   nextHandle |-> 1,
   inflight |-> << >>,
   hist |-> Hist0]

\* The primed state is c.
Becomes(c) ==
  /\ actionQueue' = c.actionQueue
  /\ lastTriggeringElements' = c.lastTriggeringElements
  /\ timers' = c.timers
  /\ nextId' = c.nextId
  /\ elValue' = c.elValue
  /\ focused' = c.focused
  /\ poll' = c.poll
  /\ intervals' = c.intervals
  /\ nextHandle' = c.nextHandle
  /\ inflight' = c.inflight
  /\ hist' = c.hist

Starts(c) ==
  /\ actionQueue = c.actionQueue
  /\ lastTriggeringElements = c.lastTriggeringElements
  /\ timers = c.timers
  /\ nextId = c.nextId
  /\ elValue = c.elValue
  /\ focused = c.focused
  /\ poll = c.poll
  /\ intervals = c.intervals
  /\ nextHandle = c.nextHandle
  /\ inflight = c.inflight
  /\ hist = c.hist

RegistryBecomes(r) ==
  /\ modelEls' = r.modelEls
  /\ dbEls' = r.dbEls
  /\ actionEvents' = r.actionEvents
  /\ attachedEventTypes' = r.attachedEventTypes
  /\ elListeners' = r.elListeners
  /\ docListeners' = r.docListeners

RegistryStarts(r) ==
  /\ modelEls = r.modelEls
  /\ dbEls = r.dbEls
  /\ actionEvents = r.actionEvents
  /\ attachedEventTypes = r.attachedEventTypes
  /\ elListeners = r.elListeners
  /\ docListeners = r.docListeners

RegistryUnchanged ==
  UNCHANGED << modelEls, dbEls, actionEvents, attachedEventTypes, elListeners, docListeners >>

Id0 == [e \in Elements |-> IF e = 2 THEN "x" ELSE ""]
Key0 == [e \in Elements |-> IF e \in {1, 2} THEN "k" ELSE ""]

\* The state after the constructor (lines 10-43), the root carrying no poll
\* directive.
Init ==
  /\ RegistryStarts(RefreshEventListeners(NewRegistry))
  /\ Starts(InitPolling(Constructed, NoPoll))
  /\ data = Data0
  /\ elId = Id0
  /\ elKey = Key0
  /\ hidden = FALSE

\* ---------------------------------------------------------------- actions

WithinBounds(c) ==
  /\ c.nextId <= MaxActions + 1
  /\ Len(c.lastTriggeringElements) <= MaxTriggering
  /\ Len(c.inflight) <= MaxInFlight

\* The listeners attached to node e run, in the order they were attached.
RECURSIVE ElementListeners(_, _, _, _)
ElementListeners(c, e, eventType, ls) ==
  IF ls = << >> THEN c
  ELSE LET l == Head(ls)
           c1 == IF l.eventType # eventType THEN c
                 ELSE IF l.kind = "model" THEN ModelListener(c, e)
                 ELSE DbListener(c, e)
       IN ElementListeners(c1, e, eventType, Tail(ls))

\* The listeners attached to the document run as the event bubbles up.
RECURSIVE DocumentListeners(_, _, _, _, _)
DocumentListeners(c, e, eventType, key, ls) ==
  IF ls = << >> THEN c
  ELSE DocumentListeners(
         IF Head(ls) = eventType THEN ActionListener(c, eventType, e, key) ELSE c,
         e, eventType, key, Tail(ls))

\* An event of type eventType is dispatched on node e.
Dispatch(c, e, eventType, key) ==
  DocumentListeners(
    ElementListeners([c EXCEPT !.hist.lastEvent = Event(e, eventType, key)],
                     e, eventType,
                     IF e \in Elements THEN elListeners[e] ELSE << >>),
    e, eventType, key, docListeners)

\* Some listener of the component acted on the event.
Noticed(c) ==
  \/ c.actionQueue # actionQueue
  \/ c.hist.lastEvent.prevented
  \/ c.hist.lastEvent.stopped

Frame == UNCHANGED << data, elId, elKey, hidden >>

\* The user edits the control e to show v: an input event.
InputEvent(e, v) ==
  LET c == Dispatch([Cur EXCEPT !.elValue[e] = v], e, "input", "")
  IN /\ WithinBounds(c)
     /\ Becomes(c)
     /\ RegistryUnchanged
     /\ Frame

\* The control e loses the focus: a blur event.
BlurEvent(e) ==
  LET c == Dispatch(Cur, e, "blur", "")
  IN /\ Noticed(c)
     /\ WithinBounds(c)
     /\ Becomes(c)
     /\ RegistryUnchanged
     /\ Frame

\* The user clicks node e.
ClickEvent(e) ==
  LET c == Dispatch(Cur, e, "click", "")
  IN /\ Noticed(c)
     /\ WithinBounds(c)
     /\ Becomes(c)
     /\ RegistryUnchanged
     /\ Frame

\* The debounce window of a call site expires.
TimerFire(site) ==
  /\ timers[site].pending
  /\ LET c == Expire(Cur, site)
     IN /\ WithinBounds(c)
        /\ Becomes(c)
  /\ RegistryUnchanged
  /\ Frame

Remove(s, i) == SubSeq(s, 1, i - 1) \o SubSeq(s, i + 1, Len(s))

ResponseData ==
  { [p \in Paths |-> CASE p = <<"u">> -> Obj [] p = <<"c">> -> Absent [] OTHER -> "v2"],
    [p \in Paths |-> CASE p = <<"a">> -> "v1" [] p = <<"u">> -> Null [] OTHER -> Absent] }

ResponseDbUpdates ==
  { NoUpdates, [k \in {<<"rec", "1", "g">>} |-> "v2"] }

ListenersWithinBound(r) ==
  \A e \in Elements : \A k \in {"model", "db"} :
    Cardinality({i \in DOMAIN r.elListeners[e] : r.elListeners[e][i].kind = k}) <= MaxListeners

\* The i-th request in flight is answered with the data d and the record
\* updates dbUpdates: send merges, rebuilds the listeners and calls back.
RespondOk(i, d, dbUpdates) ==
  /\ i \in DOMAIN inflight
  /\ LET req == inflight[i]
         r == RefreshEventListeners(Registry)
         c1 == NoteResponse(SendSuccess([Cur EXCEPT !.inflight = Remove(@, i)], req), "ok")
         c2 == OnSuccess(StartMerge(c1), req.cb, lastTriggeringElements, dbUpdates, d)
     IN /\ ListenersWithinBound(r)
        /\ RegistryBecomes(r)
        /\ Becomes(c2)
  /\ data' = d
  /\ UNCHANGED << elId, elKey, hidden >>

\* The i-th request in flight fails.
RespondError(i) ==
  /\ i \in DOMAIN inflight
  /\ LET req == inflight[i]
         c1 == NoteResponse([Cur EXCEPT !.inflight = Remove(@, i)], "error")
     IN Becomes(OnError(c1, req.cb))
  /\ RegistryUnchanged
  /\ Frame

\* The controls bound to a model, and those bound to a record field.
ModelControls == {e \in Elements : ~IsEmptyModel(ElModel(e))}
RecordControls == {e \in Elements : ~IsEmptyField(ElField(e))}
\* The nodes that carry an action and enclose controls, and the other nodes
\* that carry an action.
Forms == {e \in Elements : ElActions(e) # << >> /\ Walk(e) # << >>}
Buttons == {e \in Elements : ElActions(e) # << >> /\ Walk(e) = << >>}

\* The user works on the model controls and the form.
Next ==
  \/ \E e \in ModelControls, v \in Values : InputEvent(e, v)
  \/ \E e \in Elements : BlurEvent(e)
  \/ \E e \in Forms : ClickEvent(e)
  \/ \E site \in {"default", "custom"} : TimerFire(site)
  \/ \E i \in 1 .. MaxInFlight, d \in ResponseData, u \in ResponseDbUpdates : RespondOk(i, d, u)
  \/ \E i \in 1 .. MaxInFlight : RespondError(i)

Spec == Init /\ [][Next]_vars

\* The user works on the record controls and the form.
NextDb ==
  \/ \E e \in RecordControls, v \in Values : InputEvent(e, v)
  \/ \E e \in Elements : BlurEvent(e)
  \/ \E e \in Forms : ClickEvent(e)
  \/ \E site \in {"default", "custom"} : TimerFire(site)
  \/ \E i \in 1 .. MaxInFlight, d \in ResponseData, u \in ResponseDbUpdates : RespondOk(i, d, u)
  \/ \E i \in 1 .. MaxInFlight : RespondError(i)

SpecDb == Init /\ [][NextDb]_vars

\* ------------------------------------------------------- the action events

Keys == {"Enter", "Escape"}

\* A key is released on node e.
KeyEvent(e, key) ==
  LET c == Dispatch(Cur, e, "keyup", key)
  IN /\ Noticed(c)
     /\ WithinBounds(c)
     /\ Becomes(c)
     /\ RegistryUnchanged
     /\ Frame

\* The user clicks the node of the other component: the event reaches the
\* document, where this component's listeners run too.
ForeignClick ==
  LET c == Dispatch(Cur, Foreign, "click", "")
  IN /\ WithinBounds(c)
     /\ Becomes(c)
     /\ RegistryUnchanged
     /\ Frame

\* The controls with a lazy model binding.
LazyControls == {e \in ModelControls : ElModel(e).isLazy}

\* The user fills the lazy controls, clicks the form and the buttons, and
\* releases keys on the form.
NextActions ==
  \/ \E e \in LazyControls, v \in Values : InputEvent(e, v)
  \/ \E e \in Forms \cup Buttons : ClickEvent(e)
  \/ \E e \in Forms, key \in Keys : KeyEvent(e, key)
  \/ ForeignClick
  \/ \E site \in {"default", "custom"} : TimerFire(site)
  \/ \E i \in 1 .. MaxInFlight, d \in ResponseData, u \in ResponseDbUpdates : RespondOk(i, d, u)
  \/ \E i \in 1 .. MaxInFlight : RespondError(i)

SpecActions == Init /\ [][NextActions]_vars

\* ----------------------------------------------------- the deferred controls

\* The controls all of whose bindings are deferred.
DeferredControls ==
  {e \in ValueElements :
     /\ ~IsEmptyModel(ElModel(e)) => ElModel(e).isDefer
     /\ ~IsEmptyField(ElField(e)) => ElField(e).isDefer}

\* The user edits the deferred controls and clicks the button.
NextDefer ==
  \/ \E e \in DeferredControls, v \in Values : InputEvent(e, v)
  \/ \E e \in Buttons : ClickEvent(e)
  \/ \E site \in {"default", "custom"} : TimerFire(site)
  \/ \E i \in 1 .. MaxInFlight, d \in ResponseData, u \in ResponseDbUpdates : RespondOk(i, d, u)
  \/ \E i \in 1 .. MaxInFlight : RespondError(i)

SpecDefer == Init /\ [][NextDefer]_vars

\* ------------------------------------------------------- polling component

\* unicorn:poll-5000="refresh" on the root.
PollDirective == [method |-> <<"refresh">>, timing |-> 5000, timer |-> 0]

\* The state after the constructor, the root carrying a poll directive and
\* the page being visible.
InitPoll ==
  /\ RegistryStarts(RefreshEventListeners(NewRegistry))
  /\ Starts(InitPolling(Constructed, PollDirective))
  /\ data = Data0
  /\ elId = Id0
  /\ elKey = Key0
  /\ hidden = FALSE

\* The same, the page being loaded in any tab: in front, or in the background
\* (document.hidden is then true until the user switches to the tab).
InitPollAnyTab ==
  /\ RegistryStarts(RefreshEventListeners(NewRegistry))
  /\ Starts(InitPolling(Constructed, PollDirective))
  /\ data = Data0
  /\ elId = Id0
  /\ elKey = Key0
  /\ hidden \in BOOLEAN

\* A tick of a running setInterval: callMethod(method, handleError).
IntervalTick(iv) ==
  /\ iv \in intervals
  /\ LET c == CallMethod([Cur EXCEPT !.hist.pollCalls = @ + 1], poll.method,
                         MethodCallback("handleError", iv.timer))
     IN /\ WithinBounds(c)
        /\ Becomes(c)
  /\ RegistryUnchanged
  /\ Frame

\* The page is hidden or shown: the visibilitychange listener runs.
VisibilityChange ==
  /\ poll # NoPoll
  /\ hidden' = ~hidden
  /\ LET c == VisibilityListener(Cur, ~hidden)
     IN /\ WithinBounds(c)
        /\ Becomes(c)
  /\ RegistryUnchanged
  /\ UNCHANGED << data, elId, elKey >>

NextPoll ==
  \/ \E iv \in intervals : IntervalTick(iv)
  \/ VisibilityChange
  \/ \E site \in {"default", "custom"} : TimerFire(site)
  \/ \E i \in 1 .. MaxInFlight, d \in ResponseData, u \in ResponseDbUpdates : RespondOk(i, d, u)
  \/ \E i \in 1 .. MaxInFlight : RespondError(i)

SpecPoll == InitPoll /\ [][NextPoll]_vars

SpecPollAnyTab == InitPollAnyTab /\ [][NextPoll]_vars

\* ----------------------------------------------------- the merge on its own

\* The server data a merge may meet: members present or not, u a value, null
\* or a nested object with or without its member c.
MergeData ==
  { d \in [Paths -> {Absent, Null, Obj, "v1", "v2"}] :
      /\ d[<<"a">>] \in {Absent, "v1"}
      /\ d[<<"b">>] = "v2"
      /\ d[<<"c">>] \in {Absent, Null, "v1"}
      /\ d[<<"u">>] \in {Absent, Null, Obj, "v2"}
      /\ d[<<"u", "c">>] # Obj
      /\ d[<<"u">>] # Obj => d[<<"u", "c">>] = Absent }

\* The elements a listener can have recorded as triggering elements.
TriggerElements ==
  {e \in Elements : ~IsEmptyModel(ElModel(e)) \/ ~IsEmptyField(ElField(e))}

TriggerSeqs ==
  UNION {[1 .. n -> TriggerElements] : n \in 0 .. MaxTriggering}

\* A merge is about to run: any data, any recorded triggering elements, any
\* id and key attributes on the first two model elements.
InitMerge ==
  /\ RegistryStarts(RefreshEventListeners(NewRegistry))
  /\ \E te \in TriggerSeqs :
       Starts([Constructed EXCEPT !.lastTriggeringElements = te,
                                  !.hist.phase = "merge"])
  /\ data \in MergeData
  /\ elId \in {f \in [Elements -> {"", "x"}] : \A e \in Elements \ {1, 2} : f[e] = ""}
  /\ elKey \in {f \in [Elements -> {"", "k"}] : \A e \in Elements \ {1, 2} : f[e] = ""}
  /\ hidden = FALSE

\* setModelValues(triggeringElements) runs against this.data.
Merge ==
  /\ hist.phase = "merge"
  /\ Becomes([SetModelValues(StartMerge(Cur), lastTriggeringElements, data)
                EXCEPT !.hist.phase = "merged"])
  /\ RegistryUnchanged
  /\ Frame

NextMerge == Merge

SpecMerge == InitMerge /\ [][NextMerge]_vars

\* ------------------------------------------------- timers and network run

\* The controls with a binding that is not deferred and not lazy: their
\* listeners enqueue and dispatch.
EagerControls == ValueElements \ (DeferredControls \cup LazyControls)

\* A request in flight is answered, one way or the other.
Answer ==
  \/ \E i \in 1 .. MaxInFlight : RespondError(i)
  \/ \E i \in 1 .. MaxInFlight, d \in ResponseData, u \in ResponseDbUpdates : RespondOk(i, d, u)

\* The user edits the controls that dispatch, clicks the button and releases
\* keys on the form.
NextLive ==
  \/ \E e \in EagerControls, v \in Values : InputEvent(e, v)
  \/ \E e \in Buttons : ClickEvent(e)
  \/ \E e \in Forms, key \in Keys : KeyEvent(e, key)
  \/ \E site \in {"default", "custom"} : TimerFire(site)
  \/ Answer

\* A debounce window that is open expires, and a request that was made is
\* answered; the user is free to do nothing more.
SpecLive ==
  /\ Init
  /\ [][NextLive]_vars
  /\ \A site \in {"default", "custom"} : SF_vars(TimerFire(site))
  /\ WF_vars(Answer)

\* ----------------------------------------------------------- construction

\* init() without the test on this.root: it never throws.
InitThrows_Never(rootFound) == FALSE

\* init(), lines 49-53: throws when no node carries the component's id.
InitThrows(rootFound) == ~rootFound

\* The page before new Component(args): some node carries the component's id,
\* or none does.
InitNew ==
  /\ RegistryStarts(NewRegistry)
  /\ \E found \in BOOLEAN :
       Starts([Constructed EXCEPT !.hist.phase = "new", !.hist.rootFound = found])
  /\ data = Data0
  /\ elId = Id0
  /\ elKey = Key0
  /\ hidden = FALSE

\* new Component(args), the root (if any) carrying the poll directive p: the
\* fields are set, then init(), refreshEventListeners() and initPolling() run,
\* unless init() throws.
Construct(p) ==
  /\ hist.phase = "new"
  /\ IF InitThrows(hist.rootFound)
       THEN /\ Becomes([Cur EXCEPT !.hist.phase = "failed"])
            /\ RegistryUnchanged
       ELSE /\ RegistryBecomes(RefreshEventListeners(Registry))
            /\ Becomes(InitPolling([Cur EXCEPT !.hist.phase = "running"], p))
  /\ Frame

\* The component is constructed as the page loads, or construction fails;
\* then the user works on the model controls and the form, and the timers run.
Loaded == hist.phase # "new"

NextConstruct ==
  \/ \E p \in {NoPoll, PollDirective} : Construct(p)
  \/ Loaded /\ \E e \in ModelControls, v \in Values : InputEvent(e, v)
  \/ Loaded /\ \E e \in Forms : ClickEvent(e)
  \/ \E iv \in intervals : IntervalTick(iv)
  \/ \E site \in {"default", "custom"} : TimerFire(site)
  \/ \E i \in 1 .. MaxInFlight : RespondError(i)

SpecConstruct == InitNew /\ [][NextConstruct]_vars

\* ------------------------------------------------------------- the claims

SyncEntries(n) ==
  {i \in DOMAIN actionQueue :
     actionQueue[i].type = "syncInput" /\ actionQueue[i].name = n}

\* The field names that only the deferred branch of a model listener
\* enqueues: every binding of the name is deferred, and none is lazy (a lazy
\* one can be flushed by an action).
DeferredOnlyNames ==
  {n \in ModelNames :
     \A e \in Elements :
       ElModel(e).name = n => ElModel(e).isDefer /\ ~ElModel(e).isLazy}

DbEntries(r) ==
  {i \in DOMAIN actionQueue :
     actionQueue[i].type = "dbInput" /\ <<actionQueue[i].db, actionQueue[i].pk>> = r}

\* The records that only the deferred branch of a record listener enqueues.
DeferredOnlyRecords ==
  {r \in Records :
     \A e \in Elements :
       (<<ElDb(e).name, ElDb(e).pk>> = r /\ ~IsEmptyField(ElField(e)))
         => ElField(e).isDefer /\ ~ElModel(e).isLazy}

MethodCalled ==
  /\ nextId' > nextId
  /\ actionQueue'[Len(actionQueue')].type = "callMethod"
  /\ actionQueue'[Len(actionQueue')].id = nextId' - 1

\* The default window of sendMessage expires in this step.
DefaultWindowExpires ==
  timers["default"].pending /\ ~timers'["default"].pending

AnsweredOk ==
  Len(inflight') < Len(inflight) /\ hist'.lastOutcome = "ok"

Range(seq) == {seq[i] : i \in DOMAIN seq}

\* C5: setModelValues applies setValue to exactly the bound model elements
\* that are none of the triggering elements (to all of them when there are no
\* triggering elements).
C5_SetValueSkipsTriggeringElements ==
  hist.phase = "merged" =>
    hist.setValueCalls =
      {e \in Range(modelEls) : e \notin Range(lastTriggeringElements)}

\* The last recorded triggering element, and whether focus may be restored
\* from it.
LastTriggering == lastTriggeringElements[Len(lastTriggeringElements)]

FocusEligible ==
  /\ Len(lastTriggeringElements) > 0
  /\ ~IsEmptyModel(ElModel(LastTriggering))
  /\ ~ElModel(LastTriggering).isLazy

IdMatches ==
  {e \in Range(modelEls) : elId[LastTriggering] # "" /\ elId[e] = elId[LastTriggering]}

KeyMatches ==
  {e \in Range(modelEls) : elKey[LastTriggering] # "" /\ elKey[e] = elKey[LastTriggering]}

\* C6: focus is restored from the last triggering element only.  If it has a
\* model that is not lazy and some bound model element shares its id or its
\* key, exactly one element is focused: one that shares the id if there is
\* one, else one that shares the key.  Otherwise no element is focused.
C6_FocusFromLastTriggeringElement ==
  hist.phase = "merged" =>
    IF FocusEligible /\ (IdMatches \cup KeyMatches) # {}
      THEN /\ Len(hist.focusCalls) = 1
           /\ focused = hist.focusCalls[1]
           /\ IdMatches # {} => focused \in IdMatches
           /\ IdMatches = {} => focused \in KeyMatches
      ELSE /\ hist.focusCalls = << >>
           /\ focused = Root

\* C6's case: an earlier model element shares only the key of the last
\* triggering element, a later one shares its id, and the later one has the
\* focus.
C6_Witness ==
  /\ hist.phase = "merged"
  /\ FocusEligible
  /\ \E k \in KeyMatches \ IdMatches : \E i \in IdMatches :
       /\ k < i
       /\ focused = i

\* The path leads to a value: every segment before the last one is a nested
\* object of the data reached so far, and the last one is present in it.
Resolvable(d, path) ==
  /\ \A k \in 1 .. Len(path) - 1 : Lookup(d, SubSeq(path, 1, k)) = Obj
  /\ Lookup(d, path) # Absent

Shown(v) ==
  CASE v = Null -> EmptyString [] v = Obj -> ObjectString [] OTHER -> v

\* C7: setValue writes the element exactly when its dotted path leads to a
\* value through every segment in order, and it writes that value; when a
\* segment is absent from the data reached so far nothing is written.
C7_SetValueFollowsWholePath ==
  hist.phase = "merged" =>
    \A e \in hist.setValueCalls :
      /\ e \in hist.written <=> Resolvable(data, ElModel(e).name)
      /\ e \in hist.written => elValue[e] = Shown(Lookup(data, ElModel(e).name))

\* A request made for the poll loop is answered with an error in this step.
PollErrorDelivered ==
  /\ hist'.lastOutcome = "error"
  /\ \E i \in DOMAIN inflight :
       /\ inflight' = Remove(inflight, i)
       /\ inflight[i].cb.errCallback = "handleError"

\* C8: when the completion callback of a poll invocation receives an error,
\* the interval timer is cleared, and from then on the timer makes no further
\* poll invocation.
C8_PollStopsOnError ==
  [][ /\ PollErrorDelivered => \A iv \in intervals' : iv.handle # poll.timer
      /\ (hist.pollErrored /\ hidden' = hidden) =>
           hist'.pollCalls = hist.pollCalls ]_vars

\* C9: once a poll invocation has failed, the page becoming visible again
\* starts no timer and makes no poll invocation.
C9_NoRestartAfterError ==
  [][ (hist.pollErrored /\ hidden /\ ~hidden') =>
        /\ intervals' \subseteq intervals
        /\ hist'.pollCalls = hist.pollCalls ]_vars

\* C10: when the page becomes hidden the interval timer is cleared, and no
\* poll invocation is made until it is visible again; when it becomes visible
\* polling restarts with one invocation and one timer; there is never more
\* than one running timer.
C10_PollingFollowsVisibility ==
  [][ /\ (~hidden /\ hidden') =>
           /\ intervals' = {}
           /\ hist'.pollCalls = hist.pollCalls
      /\ (hidden /\ ~hidden') =>
           /\ hist'.pollCalls = hist.pollCalls + 1
           /\ Cardinality(intervals') = 1
      /\ Cardinality(intervals') <= 1 ]_vars

\* The listeners of one kind ("model" or "db") attached to element e.
ListenersOf(e, kind) ==
  {i \in DOMAIN elListeners[e] : elListeners[e][i].kind = kind}

\* C11: whatever the number of rebuilds, an element of the document has
\* exactly one model listener if it carries a model binding and exactly one
\* record listener if it carries a record field binding (and none otherwise).
C11_OneListenerPerBinding ==
  \A e \in Elements :
    /\ Cardinality(ListenersOf(e, "model")) = (IF e \in ModelControls THEN 1 ELSE 0)
    /\ Cardinality(ListenersOf(e, "db")) = (IF e \in RecordControls THEN 1 ELSE 0)

\* The event types of the action bindings in the component.
ActionEventTypes ==
  UNION {{ElActions(e)[i].eventType : i \in DOMAIN ElActions(e)} : e \in Elements}

\* This step handles an action event (a click, a key) whose target is node e.
ActionEventOn(e) ==
  /\ hist'.lastEvent.target = e
  /\ hist'.lastEvent.eventType \in ActionEventTypes
  /\ hist'.lastEvent # hist.lastEvent \/ actionQueue' # actionQueue

\* The entries this step appended to the queue, and the callMethod ones.
Appended == SubSeq(actionQueue', Len(actionQueue) + 1, Len(actionQueue'))

Calls ==
  LET IsCall(a) == a.type = "callMethod"
  IN SelectSeq(Appended, IsCall)

\* Whether the binding b answers the event of this step.
Answers(b) ==
  /\ b.eventType = hist'.lastEvent.eventType
  /\ b.key = "" \/ b.key = ToKebabCase(hist'.lastEvent.key)

\* The bindings of node e, as its attributes give them, that answer the event.
FiredBindings(e) == SelectSeq(ElActions(e), Answers)

\* The document listeners attached for event type t.
DocListenersOf(t) == {i \in DOMAIN docListeners : docListeners[i] = t}

\* C12: at construction and after any number of rebuilds the document has
\* exactly one listener of the component per action event type, and an action
\* event on a bound element calls callMethod once per binding that answers it.
C12_OneDocumentListenerPerEventType ==
  [][ /\ \A t \in ActionEventTypes :
           Cardinality(DocListenersOf(t)) = 1 /\ Cardinality(DocListenersOf(t)') = 1
      /\ \A e \in Elements :
           ActionEventOn(e) => Len(Calls) = Len(FiredBindings(e)) ]_vars

\* C12's case: two elements carry a click action, the listeners have been
\* rebuilt after a response, and a click on the button since then has put its
\* one callMethod entry at the tail of the queue.
C12_Witness ==
  /\ Cardinality({e \in Elements :
        \E i \in DOMAIN ElActions(e) : ElActions(e)[i].eventType = "click"}) >= 2
  /\ hist.lastOutcome = "ok"
  /\ hist.lastEvent.target \in Buttons
  /\ actionQueue # << >>
  /\ actionQueue[Len(actionQueue)].type = "callMethod"
  /\ actionQueue[Len(actionQueue)].name = ElActions(hist.lastEvent.target)[1].name
  /\ \A i \in 1 .. Len(actionQueue) - 1 : actionQueue[i].type # "callMethod"

\* The bindings recorded at the last rebuild against node e that answer the
\* event of this step.
RecordedBindings(e) ==
  LET Recorded(ae) == ae.element = e /\ Answers(ae.action)
  IN SelectSeq(actionEvents[hist'.lastEvent.eventType], Recorded)

\* C13: an action event on node e enqueues callMethod for exactly the bindings
\* recorded at the last rebuild against e itself for that event type; when e
\* is not a node of the component (even one with the attributes of a bound
\* element) the component enqueues nothing and schedules no dispatch.
C13_ActionEventsReachOnlyTheirElement ==
  [][ \A e \in Elements \cup {Foreign} :
        ActionEventOn(e) =>
          /\ [i \in DOMAIN Calls |-> Calls[i].name] =
               [i \in DOMAIN RecordedBindings(e) |-> RecordedBindings(e)[i].action.name]
          /\ e \notin Elements =>
               /\ actionQueue' = actionQueue
               /\ lastTriggeringElements' = lastTriggeringElements
               /\ timers' = timers
               /\ inflight' = inflight ]_vars

\* C13's case: the node of the other component, which has the attributes of
\* the bound button, was clicked while the component listens to clicks, and
\* the component has enqueued and scheduled nothing.
C13_Witness ==
  /\ hist.lastEvent.target = Foreign
  /\ \E e \in Buttons : ElActions(e) = ElActions(Foreign)
  /\ DocListenersOf("click") # {}
  /\ actionQueue = << >>
  /\ \A site \in DOMAIN timers : ~timers[site].pending

\* This step handles an input event whose target is control e.
InputEventOn(e) ==
  /\ hist'.lastEvent.target = e
  /\ hist'.lastEvent.eventType = "input"
  /\ \/ hist'.lastEvent # hist.lastEvent
     \/ elValue' # elValue
     \/ actionQueue' # actionQueue

\* The queue q holds the value v for the bindings of control e.
HoldsValueOf(q, e, v) ==
  /\ ~IsEmptyModel(ElModel(e)) =>
       \E i \in DOMAIN q : q[i].name = ElModel(e).name /\ q[i].value = v
  /\ ~IsEmptyField(ElField(e)) =>
       \E i \in DOMAIN q :
         /\ q[i].db = ElDb(e).name
         /\ q[i].pk = ElDb(e).pk
         /\ q[i].fields[ElField(e).name] = v

AnsweredError ==
  /\ hist'.lastOutcome = "error"
  /\ \E i \in DOMAIN inflight : inflight' = Remove(inflight, i)

\* C15: when a request fails, the completion callback writes no control and
\* moves the focus nowhere, and the action queue and the triggering elements
\* stay as they were.
C15_ErrorLeavesDomAndQueue ==
  [][ AnsweredError =>
        /\ elValue' = elValue
        /\ focused' = focused
        /\ hist'.setValueCalls = hist.setValueCalls
        /\ hist'.focusCalls = hist.focusCalls
        /\ actionQueue' = actionQueue
        /\ lastTriggeringElements' = lastTriggeringElements ]_vars

\* C15's case: a request that carried actions has failed, the data would
\* change what a control shows, and the queue still holds the actions.
C15_Witness ==
  /\ hist.lastOutcome = "error"
  /\ actionQueue # << >>
  /\ lastTriggeringElements # << >>
  /\ \E e \in ModelControls :
       /\ e \notin Range(lastTriggeringElements)
       /\ Lookup(data, ElModel(e).name) \in Values \ {elValue[e]}

\* The callMethod entries of a queue, in order.
CallsOf(q) ==
  LET IsCall(a) == a.type = "callMethod"
  IN SelectSeq(q, IsCall)

\* C16: while no request succeeds, the callMethod entries of the queue stay as
\* they are and in place, whatever is enqueued after them (a syncInput of a
\* field named like the method included); callMethod adds its entry at the
\* tail; a request that succeeds removes entries and changes none.
C16_CallMethodEntriesUntouched ==
  [][ /\ ~AnsweredOk =>
           /\ Len(CallsOf(actionQueue')) >= Len(CallsOf(actionQueue))
           /\ SubSeq(CallsOf(actionQueue'), 1, Len(CallsOf(actionQueue))) =
                CallsOf(actionQueue)
           /\ Len(CallsOf(actionQueue')) > Len(CallsOf(actionQueue)) =>
                actionQueue'[Len(actionQueue')].type = "callMethod"
      /\ AnsweredOk =>
           Range(CallsOf(actionQueue')) \subseteq Range(CallsOf(actionQueue)) ]_vars

\* C17: when no node carries the component's id, construction ends in the
\* error init() throws, and the component has then, and keeps having, no
\* listener on any element or on the document, an empty registry, an empty
\* action queue, no debounce window, no request and no polling timer.
C17_NoHalfInitializedComponent ==
  (~hist.rootFound /\ hist.phase # "new") =>
    /\ hist.phase = "failed"
    /\ Registry = NewRegistry
    /\ actionQueue = << >>
    /\ lastTriggeringElements = << >>
    /\ \A site \in DOMAIN timers : ~timers[site].pending
    /\ inflight = << >>
    /\ intervals = {}
    /\ poll = NoPoll

\* C17's case: construction has failed for want of a root, and the user has
\* since edited a control of the page.
C17_Witness ==
  /\ ~hist.rootFound
  /\ hist.phase = "failed"
  /\ hist.lastEvent.eventType = "input"
  /\ \E e \in ModelControls : elValue[e] # Constructed.elValue[e]

LazyDescendants(e) == Range(Walk(e)) \cap LazyControls

\* The entry a carries the value that control child shows, for its model or
\* for its record field.
IsFlushOf(a, child) ==
  \/ /\ a.type = "syncInput"
     /\ a.name = ElModel(child).name
     /\ a.value = elValue[child]
  \/ /\ a.type = "dbInput"
     /\ a.db = ElDb(child).name
     /\ a.pk = ElDb(child).pk
     /\ a.fields[ElField(child).name] = elValue[child]

\* The bindings of node e for the event type of this step, whatever their key.
BindingsForEvent(e) ==
  LET OfType(b) == b.eventType = hist'.lastEvent.eventType
  IN SelectSeq(ElActions(e), OfType)

\* C19: an action event on node e, for its binding b of that event type,
\* appends the values of the lazy controls inside e, and after them the
\* callMethod entry of b if b has no key filter or the key matches it;
\* preventDefault and stopPropagation follow b's flags whether or not the key
\* matches; without the call no debounce window is opened and no request made.
C19_ActionStepsInOrder ==
  [][ \A e \in Elements :
        (ActionEventOn(e) /\ BindingsForEvent(e) # << >>) =>
          LET b == BindingsForEvent(e)[1]
              called == FiredBindings(e) # << >>
              n == Len(Appended)
              flushed == IF called THEN SubSeq(Appended, 1, n - 1) ELSE Appended
          IN /\ called =>
                  /\ n >= 1
                  /\ Appended[n].type = "callMethod"
                  /\ Appended[n].name = b.name
                  /\ timers'["default"].pending
             /\ \A i \in DOMAIN flushed :
                  \E child \in LazyDescendants(e) : IsFlushOf(flushed[i], child)
             /\ \A child \in LazyDescendants(e) :
                  \E i \in DOMAIN flushed :
                    flushed[i].type = "syncInput" /\ IsFlushOf(flushed[i], child)
             /\ hist'.lastEvent.prevented = b.isPrevent
             /\ hist'.lastEvent.stopped = b.isStop
             /\ ~called => (timers' = timers /\ inflight' = inflight) ]_vars

\* C19's case: the key of the form's binding was released on the form; the
\* queue holds the value of the lazy control inside it and, after it, the
\* callMethod entry; the default was prevented and a window is open.
C19_Witness ==
  /\ hist.lastEvent.eventType = "keyup"
  /\ ToKebabCase(hist.lastEvent.key) = "enter"
  /\ hist.lastEvent.prevented
  /\ Len(actionQueue) >= 2
  /\ actionQueue[1].type = "syncInput"
  /\ \E child \in LazyDescendants(hist.lastEvent.target) : IsFlushOf(actionQueue[1], child)
  /\ actionQueue[Len(actionQueue)].type = "callMethod"
  /\ actionQueue[Len(actionQueue)].name = <<"go">>
  /\ timers["default"].pending

\* The entry a was enqueued by a deferred binding.
IsDeferredEntry(a) ==
  \/ a.type = "syncInput" /\ a.name \in DeferredOnlyNames
  \/ a.type = "dbInput" /\ <<a.db, a.pk>> \in DeferredOnlyRecords

\* The queue holds the entry of identity k, not enqueued by a deferred
\* binding, and no request has carried it yet.
AwaitsSend(k) ==
  /\ k \notin hist.everSent
  /\ \E i \in DOMAIN actionQueue :
       actionQueue[i].id = k /\ ~IsDeferredEntry(actionQueue[i])

\* C20: every entry enqueued otherwise than by a deferred binding is
\* eventually carried by a request, provided open windows expire and requests
\* are answered, the user doing nothing more.
C20_EnqueuedActionsAreSent ==
  \A k \in 1 .. MaxActions : AwaitsSend(k) ~> (k \in hist.everSent)

====
